---------------------------- MODULE Spec2Model ----------------------------
(***************************************************************************)
(* A model of the mockfrontend task application:                           *)
(*   - api/http.ts : http(), the request executor, and ApiError            *)
(*   - api/tasks   : TasksAPI, the resource client (list/create/...)       *)
(*   - the tasks page (TasksPage): the view with its drafts, dialogs,      *)
(*     toast and the fetches it issues.                                     *)
(*                                                                         *)
(* Text (request bodies, response bodies, URLs, messages) is a sequence of *)
(* one-character strings, so that JSON.stringify and JSON.parse are real   *)
(* conversions between values and text.                                    *)
(***************************************************************************)
EXTENDS Integers, Sequences, FiniteSets, TLC

(***************************************************************************)
(* JavaScript values, as far as JSON knows them.  Every value is a record  *)
(* of the same shape; t is its type tag.                                   *)
(*   n     : the number (t = "num")                                        *)
(*   s     : the characters (t = "str")                                    *)
(*   keys  : the property names in order (t = "obj")                       *)
(*   items : the elements (t = "arr") or the property values (t = "obj")   *)
(***************************************************************************)
JV(t, n, s, keys, items) ==
  [t |-> t, n |-> n, s |-> s, keys |-> keys, items |-> items]

Undefined == JV("undefined", 0, <<>>, <<>>, <<>>)
JNull == JV("null", 0, <<>>, <<>>, <<>>)
JTrue == JV("true", 0, <<>>, <<>>, <<>>)
JFalse == JV("false", 0, <<>>, <<>>, <<>>)
JNum(n) == JV("num", n, <<>>, <<>>, <<>>)
JStr(s) == JV("str", 0, s, <<>>, <<>>)
JArr(items) == JV("arr", 0, <<>>, <<>>, items)
JObj(keys, items) == JV("obj", 0, <<>>, keys, items)

\* ToBoolean: undefined, null, false, 0 and "" are falsy, the rest truthy.
Truthy(v) ==
  CASE v.t = "undefined" -> FALSE
    [] v.t = "null" -> FALSE
    [] v.t = "false" -> FALSE
    [] v.t = "num" -> v.n # 0
    [] v.t = "str" -> v.s # <<>>
    [] OTHER -> TRUE

(***************************************************************************)
(* JSON.stringify, for values that hold no undefined.                      *)
(***************************************************************************)
Digits == <<"0", "1", "2", "3", "4", "5", "6", "7", "8", "9">>

IsDigit(c) == \E i \in 1..10 : Digits[i] = c

DigitVal(c) == (CHOOSE i \in 1..10 : Digits[i] = c) - 1

RECURSIVE NatToChars(_)
NatToChars(n) ==
  IF n < 10 THEN <<Digits[n + 1]>>
  ELSE NatToChars(n \div 10) \o <<Digits[(n % 10) + 1]>>

NumToChars(n) == IF n < 0 THEN <<"-">> \o NatToChars(0 - n) ELSE NatToChars(n)

\* QuoteJSONString's escapes, for the characters of the model.
EscapeChar(c) ==
  CASE c = "\"" -> <<"\\", "\"">>
    [] c = "\\" -> <<"\\", "\\">>
    [] c = "\n" -> <<"\\", "n">>
    [] c = "\t" -> <<"\\", "t">>
    [] c = "\r" -> <<"\\", "r">>
    [] c = "\f" -> <<"\\", "f">>
    [] OTHER -> <<c>>

RECURSIVE EscapeChars(_)
EscapeChars(s) ==
  IF s = <<>> THEN <<>> ELSE EscapeChar(Head(s)) \o EscapeChars(Tail(s))

QuoteString(s) == <<"\"">> \o EscapeChars(s) \o <<"\"">>

RECURSIVE JSONstringify(_)
RECURSIVE StringifyItems(_, _)
RECURSIVE StringifyMembers(_, _, _)

StringifyItems(items, i) ==
  IF i > Len(items) THEN <<>>
  ELSE (IF i > 1 THEN <<",">> ELSE <<>>)
       \o JSONstringify(items[i]) \o StringifyItems(items, i + 1)

StringifyMembers(keys, items, i) ==
  IF i > Len(keys) THEN <<>>
  ELSE (IF i > 1 THEN <<",">> ELSE <<>>)
       \o QuoteString(keys[i]) \o <<":">> \o JSONstringify(items[i])
       \o StringifyMembers(keys, items, i + 1)

JSONstringify(v) ==
  CASE v.t = "null" -> <<"n", "u", "l", "l">>
    [] v.t = "true" -> <<"t", "r", "u", "e">>
    [] v.t = "false" -> <<"f", "a", "l", "s", "e">>
    [] v.t = "num" -> NumToChars(v.n)
    [] v.t = "str" -> QuoteString(v.s)
    [] v.t = "arr" -> <<"[">> \o StringifyItems(v.items, 1) \o <<"]">>
    [] v.t = "obj" -> <<"{">> \o StringifyMembers(v.keys, v.items, 1) \o <<"}">>

(***************************************************************************)
(* JSON.parse: a recursive descent over the text.  A parse step returns    *)
(* [ok, val, next]: whether it succeeded, the value, and the index of the  *)
(* first character it did not read.  Numbers are integers (the model's     *)
(* texts hold no ".", "e" or "E"); the string escapes are those of         *)
(* EscapeChar plus "\/" (the model's texts hold no "\u" or "\b").          *)
(***************************************************************************)
PFail == [ok |-> FALSE, val |-> Undefined, next |-> 0]
POk(v, next) == [ok |-> TRUE, val |-> v, next |-> next]

IsWs(c) == c \in {" ", "\t", "\n", "\r"}

RECURSIVE SkipWs(_, _)
SkipWs(s, i) == IF i <= Len(s) /\ IsWs(s[i]) THEN SkipWs(s, i + 1) ELSE i

HasAt(s, i, w) == i + Len(w) - 1 <= Len(s) /\ SubSeq(s, i, i + Len(w) - 1) = w

\* The digits from i on, accumulated onto acc.
RECURSIVE ParseDigits(_, _, _)
ParseDigits(s, i, acc) ==
  IF i <= Len(s) /\ IsDigit(s[i])
  THEN ParseDigits(s, i + 1, acc * 10 + DigitVal(s[i]))
  ELSE [val |-> acc, next |-> i]

\* number: an optional "-", then "0" or a digit 1-9 followed by digits.
ParseNumber(s, i) ==
  LET neg == i <= Len(s) /\ s[i] = "-"
      j == IF neg THEN i + 1 ELSE i
  IN IF j > Len(s) \/ ~IsDigit(s[j]) THEN PFail
     ELSE LET d == IF s[j] = "0" THEN [val |-> 0, next |-> j + 1]
                   ELSE ParseDigits(s, j, 0)
          IN POk(JNum(IF neg THEN 0 - d.val ELSE d.val), d.next)

Unescape(c) ==
  CASE c = "n" -> "\n"
    [] c = "t" -> "\t"
    [] c = "r" -> "\r"
    [] c = "f" -> "\f"
    [] OTHER -> c

\* The characters of a string from j on (after the opening quote) up to the
\* closing quote; a raw control character is an error.
RECURSIVE ParseChars(_, _, _)
ParseChars(s, j, acc) ==
  IF j > Len(s) THEN PFail
  ELSE IF s[j] = "\"" THEN POk(JStr(acc), j + 1)
  ELSE IF s[j] \in {"\n", "\t", "\r", "\f"} THEN PFail
  ELSE IF s[j] = "\\"
       THEN IF j + 1 <= Len(s) /\ s[j + 1] \in {"\"", "\\", "/", "n", "t", "r", "f"}
            THEN ParseChars(s, j + 2, Append(acc, Unescape(s[j + 1])))
            ELSE PFail
  ELSE ParseChars(s, j + 1, Append(acc, s[j]))

ParseString(s, i) ==
  IF i <= Len(s) /\ s[i] = "\"" THEN ParseChars(s, i + 1, <<>>) ELSE PFail

\* An object's property set by a member: a repeated name keeps its place and
\* takes the later value.
KeyIndex(keys, k) ==
  IF \E i \in 1..Len(keys) : keys[i] = k
  THEN CHOOSE i \in 1..Len(keys) : keys[i] = k
  ELSE 0

RECURSIVE ParseValue(_, _)
RECURSIVE ParseElements(_, _, _)
RECURSIVE ParseMembers(_, _, _, _)

\* i is at the first element of an array that is not empty.
ParseElements(s, i, acc) ==
  LET e == ParseValue(s, i)
  IN IF ~e.ok THEN PFail
     ELSE IF e.next > Len(s) THEN PFail
     ELSE IF s[e.next] = "]" THEN POk(JArr(Append(acc, e.val)), e.next + 1)
     ELSE IF s[e.next] = "," THEN ParseElements(s, e.next + 1, Append(acc, e.val))
     ELSE PFail

\* i is at the first member of an object that is not empty.
ParseMembers(s, i, keys, items) ==
  LET k == ParseString(s, SkipWs(s, i))
      c == IF k.ok THEN SkipWs(s, k.next) ELSE 0
  IN IF ~k.ok THEN PFail
     ELSE IF c > Len(s) \/ s[c] # ":" THEN PFail
     ELSE LET e == ParseValue(s, c + 1)
              at == KeyIndex(keys, k.val.s)
              keys2 == IF at = 0 THEN Append(keys, k.val.s) ELSE keys
              items2 == IF at = 0 THEN Append(items, e.val)
                        ELSE [items EXCEPT ![at] = e.val]
          IN IF ~e.ok THEN PFail
             ELSE IF e.next > Len(s) THEN PFail
             ELSE IF s[e.next] = "}" THEN POk(JObj(keys2, items2), e.next + 1)
             ELSE IF s[e.next] = "," THEN ParseMembers(s, e.next + 1, keys2, items2)
             ELSE PFail

\* value: whitespace, a value, whitespace.
ParseValue(s, i) ==
  LET j == SkipWs(s, i)
      r == IF j > Len(s) THEN PFail
           ELSE IF HasAt(s, j, <<"n", "u", "l", "l">>) THEN POk(JNull, j + 4)
           ELSE IF HasAt(s, j, <<"t", "r", "u", "e">>) THEN POk(JTrue, j + 4)
           ELSE IF HasAt(s, j, <<"f", "a", "l", "s", "e">>) THEN POk(JFalse, j + 5)
           ELSE IF s[j] = "\"" THEN ParseString(s, j)
           ELSE IF s[j] = "[" THEN
                  LET k == SkipWs(s, j + 1)
                  IN IF k <= Len(s) /\ s[k] = "]" THEN POk(JArr(<<>>), k + 1)
                     ELSE ParseElements(s, j + 1, <<>>)
           ELSE IF s[j] = "{" THEN
                  LET k == SkipWs(s, j + 1)
                  IN IF k <= Len(s) /\ s[k] = "}" THEN POk(JObj(<<>>, <<>>), k + 1)
                     ELSE ParseMembers(s, j + 1, <<>>, <<>>)
           ELSE ParseNumber(s, j)
  IN IF r.ok THEN POk(r.val, SkipWs(s, r.next)) ELSE PFail

\* JSON.parse(text): [ok, val]; ok is FALSE where JSON.parse throws.
JSONparse(text) ==
  LET r == ParseValue(text, 1)
  IN IF r.ok /\ r.next = Len(text) + 1
     THEN [ok |-> TRUE, val |-> r.val]
     ELSE [ok |-> FALSE, val |-> Undefined]


(***************************************************************************)
(* Objects: property lookup and the object spread { ...a, ...b }.          *)
(***************************************************************************)
ObjGet(o, k) ==
  IF KeyIndex(o.keys, k) = 0 THEN Undefined ELSE o.items[KeyIndex(o.keys, k)]

ObjSet(o, k, v) ==
  IF KeyIndex(o.keys, k) = 0
  THEN JObj(Append(o.keys, k), Append(o.items, v))
  ELSE JObj(o.keys, [o.items EXCEPT ![KeyIndex(o.keys, k)] = v])

RECURSIVE ObjAssign(_, _, _)
ObjAssign(o, b, i) ==
  IF i > Len(b.keys) THEN o
  ELSE ObjAssign(ObjSet(o, b.keys[i], b.items[i]), b, i + 1)

Spread(a, b) == ObjAssign(ObjAssign(JObj(<<>>, <<>>), a, 1), b, 1)

(***************************************************************************)
(* Strings of the program.                                                 *)
(***************************************************************************)
GET == <<"G", "E", "T">>
POST == <<"P", "O", "S", "T">>
PATCH == <<"P", "A", "T", "C", "H">>
PUT == <<"P", "U", "T">>
DELETE == <<"D", "E", "L", "E", "T", "E">>
HttpMethod == {GET, POST, PATCH, PUT, DELETE}

ContentType == <<"C", "o", "n", "t", "e", "n", "t", "-", "T", "y", "p", "e">>
ApplicationJson ==
  <<"a", "p", "p", "l", "i", "c", "a", "t", "i", "o", "n", "/", "j", "s", "o", "n">>
NoStore == <<"n", "o", "-", "s", "t", "o", "r", "e">>

BASE ==
  <<"h", "t", "t", "p", ":", "/", "/", "l", "o", "c", "a", "l", "h", "o", "s", "t",
    ":", "3", "0", "0", "1", "/", "t", "a", "s", "k", "s">>

K_id == <<"i", "d">>
K_title == <<"t", "i", "t", "l", "e">>
K_priority == <<"p", "r", "i", "o", "r", "i", "t", "y">>
K_status == <<"s", "t", "a", "t", "u", "s">>

(***************************************************************************)
(* Errors.  An ApiError carries the status and the body text; an error of  *)
(* the transport (fetch or res.text() rejecting) has neither.              *)
(***************************************************************************)
Err(name, message, status, bodyText) ==
  [name |-> name, message |-> message, status |-> status, bodyText |-> bodyText]

NoErr == Err("", <<>>, 0, <<>>)

ApiError(message, status, bodyText) == Err("ApiError", message, status, bodyText)

TransportErrors ==
  { Err("TypeError", <<"F", "a", "i", "l", "e", "d", " ", "t", "o", " ",
                       "f", "e", "t", "c", "h">>, 0, <<>>),
    Err("TypeError", <<"L", "o", "a", "d", " ", "f", "a", "i", "l", "e", "d">>,
        0, <<>>) }

\* How a promise stands: pending, fulfilled with a value, rejected with an error.
Pending == [kind |-> "pending", value |-> Undefined, error |-> NoErr]
Return(v) == [kind |-> "return", value |-> v, error |-> NoErr]
Throw(e) == [kind |-> "throw", value |-> Undefined, error |-> e]

(***************************************************************************)
(* http(url, opts): the request it hands to fetch.                         *)
(***************************************************************************)
Opts(method, body, headers, cache) ==
  [method |-> method, body |-> body, headers |-> headers, cache |-> cache]

NoOpts == Opts(Undefined, Undefined, Undefined, Undefined)

Default(v, d) == IF v.t = "undefined" THEN d ELSE v

HttpRequest(url, o) ==
  [url |-> url,
   method |-> Default(o.method, JStr(GET)),
   cache |-> Default(o.cache, JStr(NoStore)),
   headers |-> Spread(IF Truthy(o.body)
                      THEN JObj(<<ContentType>>, <<JStr(ApplicationJson)>>)
                      ELSE JObj(<<>>, <<>>),
                      Default(o.headers, JObj(<<>>, <<>>))),
   body |-> IF Truthy(o.body) THEN JStr(JSONstringify(o.body)) ELSE Undefined]

NoRequest ==
  [url |-> <<>>, method |-> Undefined, cache |-> Undefined,
   headers |-> Undefined, body |-> Undefined]

(***************************************************************************)
(* The response.  res.ok is the transport's: the status is in 200..299.    *)
(***************************************************************************)
ResOk(status) == status \in 200..299

Response(status) == [status |-> status, ok |-> ResOk(status)]

NoResponse == [status |-> 0, ok |-> FALSE]

HttpMessage(status, method, url) ==
  <<"H", "T", "T", "P", " ">> \o NumToChars(status) \o <<" ", "f", "o", "r", " ">>
  \o method \o <<" ">> \o url

\* Variants of HttpDecode, each with one plausible slip.
\* The empty body is looked at before res.ok.
HttpDecode_EmptyFirst(req, r, txt) ==
  IF txt = <<>> THEN Return(Undefined)
  ELSE IF ~r.ok
  THEN Throw(ApiError(HttpMessage(r.status, req.method.s, req.url), r.status, txt))
  ELSE IF JSONparse(txt).ok THEN Return(JSONparse(txt).val)
  ELSE Return(JStr(txt))

\* The body text is returned without parsing it.
HttpDecode_NoParse(req, r, txt) ==
  IF ~r.ok
  THEN Throw(ApiError(HttpMessage(r.status, req.method.s, req.url), r.status, txt))
  ELSE IF txt = <<>> THEN Return(Undefined)
  ELSE Return(JStr(txt))

\* No check for the empty body: JSON.parse("") throws and the text comes back.
HttpDecode_NoEmptyCheck(req, r, txt) ==
  IF ~r.ok
  THEN Throw(ApiError(HttpMessage(r.status, req.method.s, req.url), r.status, txt))
  ELSE IF JSONparse(txt).ok THEN Return(JSONparse(txt).val)
  ELSE Return(JStr(txt))

\* JSON.parse's SyntaxError is not caught.
HttpDecode_NoCatch(req, r, txt) ==
  IF ~r.ok
  THEN Throw(ApiError(HttpMessage(r.status, req.method.s, req.url), r.status, txt))
  ELSE IF txt = <<>> THEN Return(Undefined)
  ELSE IF JSONparse(txt).ok THEN Return(JSONparse(txt).val)
  ELSE Throw(Err("SyntaxError", <<>>, 0, <<>>))

\* What http() settles to once the body text is read.
HttpDecode(req, r, txt) ==
  IF ~r.ok
  THEN Throw(ApiError(HttpMessage(r.status, req.method.s, req.url), r.status, txt))
  ELSE IF txt = <<>> THEN Return(Undefined)
  ELSE IF JSONparse(txt).ok THEN Return(JSONparse(txt).val)
  ELSE Return(JStr(txt))

\* A variant of HttpRejected: the transport's error is wrapped in an ApiError.
HttpRejected_Wrapped(e) == Throw(ApiError(e.message, 0, <<>>))

\* What http() settles to when fetch() or res.text() rejects: nothing catches it.
HttpRejected(e) == Throw(e)


(***************************************************************************)
(* TasksAPI: each operation is one call of http().                         *)
(***************************************************************************)
Low == <<"L", "o", "w">>
High == <<"H", "i", "g", "h">>
Open == <<"o", "p", "e", "n">>
Resolved == <<"R", "e", "s", "o", "l", "v", "e", "d">>

TaskIds == {<<"1">>, <<"2">>}

Payload(title, priority, status) ==
  JObj(<<K_title, K_priority, K_status>>, <<JStr(title), JStr(priority), JStr(status)>>)

Payloads ==
  {Payload(t, p, Open) : t \in {<<"a">>, <<"B", "u", "y">>}, p \in {Low, High}}

Updates ==
  { JObj(<<>>, <<>>),
    JObj(<<K_priority>>, <<JStr(High)>>),
    JObj(<<K_status>>, <<JStr(Resolved)>>),
    JObj(<<K_priority, K_status>>, <<JStr(Low), JStr(Resolved)>>) }

\* The (url, opts) each operation passes to http().
TasksAPI_list == [url |-> BASE, opts |-> NoOpts]

TasksAPI_create(payload) ==
  [url |-> BASE, opts |-> Opts(JStr(POST), payload, Undefined, Undefined)]

\* A variant of TasksAPI_update: the path lacks the id.
TasksAPI_update_NoId(id, updates) ==
  [url |-> BASE, opts |-> Opts(JStr(PATCH), updates, Undefined, Undefined)]

TasksAPI_update(id, updates) ==
  [url |-> BASE \o <<"/">> \o id,
   opts |-> Opts(JStr(PATCH), updates, Undefined, Undefined)]

TasksAPI_remove(id) ==
  [url |-> BASE \o <<"/">> \o id,
   opts |-> Opts(JStr(DELETE), Undefined, Undefined, Undefined)]

\* The promise an operation returns is the one http() returned.
TasksAPIResult(o) == o

(***************************************************************************)
(* The inputs of the request executor's specification.                     *)
(***************************************************************************)
MaxTextLen == 2

RandChars == {"[", "]", "\"", "0", "-", " "}

Task(id, title, priority, status) ==
  JObj(<<K_id, K_title, K_priority, K_status>>,
       <<JStr(id), JStr(title), JStr(priority), JStr(status)>>)

\* Values a server may send as JSON.
JsonSamples ==
  { JNull, JTrue, JFalse, JNum(12), JStr(<<"o", "k">>), JStr(<<"a", "\"", "\n">>),
    JArr(<<>>), JObj(<<>>, <<>>),
    Task(<<"1">>, <<"a">>, Low, Open),
    JArr(<<Task(<<"1">>, <<"a">>, Low, Open), Task(<<"2">>, <<"b">>, High, Resolved)>>) }

\* Texts that are not JSON.
PlainSamples ==
  { <<"o", "k">>, <<"<", "h", "t", "m", "l", ">">>, <<"{", "\"", "a", "\"", ":", "}">>,
    <<"[", "1", ",", "]">>, <<"n", "u", "l">> }

Texts ==
  UNION {[1..k -> RandChars] : k \in 0..MaxTextLen}
  \cup {JSONstringify(v) : v \in JsonSamples} \cup PlainSamples

Statuses == {200, 204, 404, 500}

Bodies ==
  { Undefined, JNull, JFalse, JNum(0), JStr(<<>>), JTrue, JNum(7), JStr(<<"a">>),
    JArr(<<>>), Payload(<<"a">>, Low, Open) }

HeaderChoices ==
  { Undefined,
    JObj(<<<<"A", "c", "c", "e", "p", "t">>>>, <<JStr(<<"*">>)>>),
    JObj(<<ContentType>>, <<JStr(<<"t", "e", "x", "t">>)>>) }

(***************************************************************************)
(* The state.                                                              *)
(*   Request executor and resource client:                                 *)
(*     hpc     : where the call stands: idle, fetch (awaiting fetch()),    *)
(*               text (awaiting res.text()), done                          *)
(*     api     : the operation called: its name and arguments              *)
(*     call    : the (url, opts) http() was called with                    *)
(*     wire    : the requests this call handed to fetch(), in order        *)
(*     res     : the response fetch() resolved with                        *)
(*     text    : the body text res.text() resolved with, a string; it is   *)
(*               undefined until then                                      *)
(*     terr    : the error fetch() or res.text() rejected with, if any     *)
(*     outcome : the promise of http()                                     *)
(*     result  : the promise the caller of the operation holds             *)
(***************************************************************************)
VARIABLES hpc, api, call, wire, res, text, terr, outcome, result

hvars == <<hpc, api, call, wire, res, text, terr, outcome, result>>

NoApi == [op |-> "none", id |-> <<>>, arg |-> Undefined]

NoCall == [url |-> <<>>, opts |-> NoOpts]

HInit ==
  /\ hpc = "idle"
  /\ api = NoApi
  /\ call = NoCall
  /\ wire = <<>>
  /\ res = NoResponse
  /\ text = Undefined
  /\ terr = NoErr
  /\ outcome = Pending
  /\ result = Pending

\* http(url, opts) up to its first await: the request is handed to fetch().
http(a, c) ==
  /\ hpc = "idle"
  /\ hpc' = "fetch"
  /\ api' = a
  /\ call' = c
  /\ wire' = <<HttpRequest(c.url, c.opts)>>
  /\ UNCHANGED <<res, text, terr, outcome, result>>

CallList == http([op |-> "list", id |-> <<>>, arg |-> Undefined], TasksAPI_list)

CallCreate ==
  \E payload \in Payloads :
    http([op |-> "create", id |-> <<>>, arg |-> payload], TasksAPI_create(payload))

CallUpdate ==
  \E id \in TaskIds, updates \in Updates :
    http([op |-> "update", id |-> id, arg |-> updates], TasksAPI_update(id, updates))

CallRemove ==
  \E id \in TaskIds :
    http([op |-> "remove", id |-> id, arg |-> Undefined], TasksAPI_remove(id))

\* http() called directly, with any options.
CallHttp ==
  \E m \in {Undefined} \cup {JStr(x) : x \in HttpMethod},
     b \in Bodies, h \in HeaderChoices :
    http([op |-> "http", id |-> <<>>, arg |-> b],
         [url |-> BASE, opts |-> Opts(m, b, h, Undefined)])

\* The promise of http() settles, and with it the operation's.
Settle(o) ==
  /\ hpc' = "done"
  /\ outcome' = o
  /\ result' = IF api.op = "http" THEN o ELSE TasksAPIResult(o)

\* fetch() resolves with a response; http() goes on to await res.text().
FetchResolve ==
  /\ hpc = "fetch"
  /\ \E st \in Statuses : res' = Response(st)
  /\ hpc' = "text"
  /\ UNCHANGED <<api, call, wire, text, terr, outcome, result>>

\* fetch() rejects: no response is obtained.
FetchReject ==
  /\ hpc = "fetch"
  /\ \E e \in TransportErrors : terr' = e /\ Settle(HttpRejected(e))
  /\ UNCHANGED <<api, call, wire, res, text>>

\* res.text() resolves with the body text; http() runs to its end.
TextResolve ==
  /\ hpc = "text"
  /\ \E txt \in Texts :
       /\ text' = JStr(txt)
       /\ Settle(HttpDecode(wire[1], res, txt))
  /\ UNCHANGED <<api, call, wire, res, terr>>

\* res.text() rejects: the body could not be read.
TextReject ==
  /\ hpc = "text"
  /\ \E e \in TransportErrors : terr' = e /\ Settle(HttpRejected(e))
  /\ UNCHANGED <<api, call, wire, res, text>>

\* The caller has taken the result; the next call may start.
Finish ==
  /\ hpc = "done"
  /\ hpc' = "idle"
  /\ api' = NoApi
  /\ call' = NoCall
  /\ wire' = <<>>
  /\ res' = NoResponse
  /\ text' = Undefined
  /\ terr' = NoErr
  /\ outcome' = Pending
  /\ result' = Pending


(***************************************************************************)
(* The tasks page.  Its strings.                                           *)
(***************************************************************************)
API ==
  <<"h", "t", "t", "p", ":", "/", "/", "l", "o", "c", "a", "l", "h", "o",
    "s", "t", ":", "3", "0", "0", "1", "/", "t", "a", "s", "k", "s">>

MsgTitleRequired ==
  <<"T", "i", "t", "l", "e", " ", "i", "s", " ", "r", "e", "q", "u", "i",
    "r", "e", "d">>

MsgTaskAdded ==
  <<"T", "a", "s", "k", " ", "a", "d", "d", "e", "d", " ", "s", "u", "c",
    "c", "e", "s", "s", "f", "u", "l", "l", "y">>

MsgTaskUpdated ==
  <<"T", "a", "s", "k", " ", "u", "p", "d", "a", "t", "e", "d", " ", "s",
    "u", "c", "c", "e", "s", "s", "f", "u", "l", "l", "y">>

MsgTaskDeleted ==
  <<"T", "a", "s", "k", " ", "d", "e", "l", "e", "t", "e", "d", " ", "s",
    "u", "c", "c", "e", "s", "s", "f", "u", "l", "l", "y">>

MsgNoChanges ==
  <<"N", "o", " ", "c", "h", "a", "n", "g", "e", "s", " ", "t", "o", " ",
    "s", "a", "v", "e">>

MsgChangesReset ==
  <<"C", "h", "a", "n", "g", "e", "s", " ", "r", "e", "s", "e", "t">>

MsgFiltersReset ==
  <<"F", "i", "l", "t", "e", "r", "s", " ", "r", "e", "s", "e", "t">>

MsgHttp ==
  <<"H", "T", "T", "P", " ">>

MsgPostFailed ==
  <<"P", "O", "S", "T", " ", "f", "a", "i", "l", "e", "d", ":", " ", "H",
    "T", "T", "P", " ">>

MsgPatchFailed ==
  <<"P", "A", "T", "C", "H", " ", "f", "a", "i", "l", "e", "d", ":", " ",
    "H", "T", "T", "P", " ">>

MsgDeleteFailed ==
  <<"D", "E", "L", "E", "T", "E", " ", "f", "a", "i", "l", "e", "d", ":",
    " ", "H", "T", "T", "P", " ">>

SyntaxErrorMessage ==
  <<"U", "n", "e", "x", "p", "e", "c", "t", "e", "d", " ", "t", "o", "k",
    "e", "n">>

NotJson == <<"<", "h", "t", "m", "l", ">">>

\* String.prototype.trim.
RECURSIVE TrimStart(_)
TrimStart(s) == IF s # <<>> /\ IsWs(Head(s)) THEN TrimStart(Tail(s)) ELSE s

RECURSIVE TrimEnd(_)
TrimEnd(s) ==
  IF s # <<>> /\ IsWs(s[Len(s)]) THEN TrimEnd(SubSeq(s, 1, Len(s) - 1)) ELSE s

Trim(s) == TrimEnd(TrimStart(s))

Remove(seq, i) == SubSeq(seq, 1, i - 1) \o SubSeq(seq, i + 1, Len(seq))

(***************************************************************************)
(* Bounds of the page's model.                                             *)
(*   MaxTasks    : the remote collection holds at most this many tasks     *)
(*   MaxInFlight : exchanges in flight at once                             *)
(*   MaxTimers   : toast timers pending at once                            *)
(*   MaxUserOps  : user events in one run                                  *)
(***************************************************************************)
MaxTasks == 2
MaxInFlight == 2
MaxTimers == 2
MaxUserOps == 3

\* What the user may type or select.
TitleInputs == {<<>>, <<" ">>, <<"a">>}
PriorityOptions == {Low, High}
StatusOptions == {Open, Resolved}

(***************************************************************************)
(* An exchange in flight: the fetch() a handler awaits.                    *)
(*   op     : the handler awaiting it                                      *)
(*   method, url, body : the request                                       *)
(*   stage  : sent (the service has not seen it) or replied                *)
(*   status, rbody : the response, once replied                            *)
(***************************************************************************)
Exch(op, method, url, body) ==
  [op |-> op, method |-> method, url |-> url, body |-> body,
   stage |-> "sent", status |-> 0, rbody |-> <<>>]

NoExch ==
  [op |-> "", method |-> <<>>, url |-> <<>>, body |-> Undefined,
   stage |-> "", status |-> 0, rbody |-> <<>>]

Replied(x, status, rbody) ==
  [x EXCEPT !.stage = "replied", !.status = status, !.rbody = rbody]

(***************************************************************************)
(* The remote task service, by its wire contract: GET base answers the     *)
(* collection as a JSON array, POST base adds the task of the body under a *)
(* new id, PATCH base/id merges the body into the task, DELETE base/id     *)
(* removes it; an unknown id answers 404.                                  *)
(***************************************************************************)
TaskId(t) == ObjGet(t, K_id).s

TaskIndex(list, id) ==
  IF \E i \in 1..Len(list) : TaskId(list[i]) = id
  THEN CHOOSE i \in 1..Len(list) : TaskId(list[i]) = id
  ELSE 0

FreshId(list) ==
  NumToChars(CHOOSE n \in 1..(Len(list) + 1) :
               /\ TaskIndex(list, NumToChars(n)) = 0
               /\ \A m \in 1..(n - 1) : TaskIndex(list, NumToChars(m)) # 0)

UrlId(url) == SubSeq(url, Len(API) + 2, Len(url))

EmptyObjectText == <<"{", "}">>

\* The JSON value of a request's body.
RequestJson(x) == IF x.body.t = "str" THEN JSONparse(x.body.s).val ELSE Undefined

Answer(list, status, rbody) == [list |-> list, status |-> status, rbody |-> rbody]

ServiceGet(list) == Answer(list, 200, JSONstringify(JArr(list)))

ServicePost(list, made) == Answer(Append(list, made), 201, JSONstringify(made))

ServicePatch(list, at, merged) ==
  Answer([list EXCEPT ![at] = merged], 200, JSONstringify(merged))

ServiceDelete(list, at) == Answer(Remove(list, at), 200, EmptyObjectText)

ServiceById(list, x, at, arg) ==
  CASE x.method = PATCH /\ at # 0 -> ServicePatch(list, at, Spread(list[at], arg))
    [] x.method = DELETE /\ at # 0 -> ServiceDelete(list, at)
    [] OTHER -> Answer(list, 404, EmptyObjectText)

ServiceAnswer(list, x) ==
  CASE x.method = GET /\ x.url = API -> ServiceGet(list)
    [] x.method = POST /\ x.url = API ->
         ServicePost(list, Spread(JObj(<<K_id>>, <<JStr(FreshId(list))>>),
                                  RequestJson(x)))
    [] OTHER -> ServiceById(list, x, TaskIndex(list, UrlId(x.url)), RequestJson(x))

InitialRemotes ==
  { <<>>,
    <<Task(<<"1">>, <<"a">>, Low, Open), Task(<<"2">>, <<"a">>, High, Open)>> }

(***************************************************************************)
(* The page's state.                                                       *)
(*   mounted : the mount effect has run                                    *)
(*   tasks, drafts, loading, err, toast, isAddOpen, newTitle, newPriority, *)
(*   newStatus, confirmOpen, pendingDeleteId : the useState cells          *)
(*   timers  : the pending setTimeout callbacks of showToast, oldest       *)
(*             first; TRUE marks the timer of the toast now shown          *)
(*   net     : the exchanges in flight, in the order they were issued      *)
(*   remote  : the collection the service holds                            *)
(*   ops     : user events so far                                          *)
(*   lastFetch : how the most recently issued fetchTasks() stands: none,   *)
(*             pending, ok or fail                                         *)
(*   ev      : the step just taken: its name, the exchange it consumed,    *)
(*             for a reload whether it met a row with an unsaved edit, and *)
(*             for a handler called with a task id that id                 *)
(***************************************************************************)
VARIABLES mounted, tasks, drafts, loading, err, toast, timers, isAddOpen,
          newTitle, newPriority, newStatus, confirmOpen, pendingDeleteId,
          net, remote, ops, ev, lastFetch

listVars == <<tasks, drafts>>
toastVars == <<toast, timers>>
formVars == <<isAddOpen, newTitle, newPriority, newStatus>>
deleteVars == <<confirmOpen, pendingDeleteId>>

vvars ==
  <<mounted, tasks, drafts, loading, err, toast, timers, isAddOpen, newTitle,
    newPriority, newStatus, confirmOpen, pendingDeleteId, net, remote, ops, ev,
    lastFetch>>

NoToast == [type |-> "", message |-> <<>>]

Event(name, x) == [name |-> name, x |-> x, dirty |-> FALSE, arg |-> <<>>]

VInit ==
  /\ mounted = FALSE
  /\ tasks = <<>>
  /\ drafts = JObj(<<>>, <<>>)
  /\ loading = TRUE
  /\ err = <<>>
  /\ toast = NoToast
  /\ timers = <<>>
  /\ isAddOpen = FALSE
  /\ newTitle = <<>>
  /\ newPriority = Low
  /\ newStatus = Open
  /\ confirmOpen = FALSE
  /\ pendingDeleteId = JNull
  /\ net = <<>>
  /\ remote \in InitialRemotes
  /\ ops = 0
  /\ ev = Event("init", NoExch)
  /\ lastFetch = "none"

\* showToast(type, message): the toast is replaced and one more timer is set.
showToast(type, message) ==
  /\ toast' = [type |-> type, message |-> message]
  /\ timers' = Append([i \in 1..Len(timers) |-> FALSE], TRUE)

CanToast == Len(timers) < MaxTimers

\* fetchTasks() up to its await: loading, err, and the GET handed to fetch();
\* base is what else is in flight.
fetchTasks(base) ==
  /\ loading' = TRUE
  /\ err' = <<>>
  /\ net' = Append(base, Exch("fetchTasks", GET, API, Undefined))

\* The drafts fetchTasks builds from the fetched list.
RECURSIVE DraftsOf(_, _, _)
DraftsOf(data, i, d) ==
  IF i > Len(data) THEN d
  ELSE DraftsOf(data, i + 1,
                ObjSet(d, TaskId(data[i]),
                       JObj(<<K_priority, K_status>>,
                            <<ObjGet(data[i], K_priority),
                              ObjGet(data[i], K_status)>>)))

\* A user event: counted, and only once the page is mounted.
UserEvent(name) ==
  /\ mounted
  /\ ops < MaxUserOps
  /\ ops' = ops + 1
  /\ ev' = Event(name, NoExch)

\* A user event on the row of task id.
RowEvent(name, id) ==
  /\ mounted
  /\ ops < MaxUserOps
  /\ ops' = ops + 1
  /\ ev' = [Event(name, NoExch) EXCEPT !.arg = id]

(***************************************************************************)
(* The handlers, each up to its await.                                     *)
(***************************************************************************)
\* useEffect(() => { fetchTasks(); }, []).
Mount ==
  /\ ~mounted
  /\ mounted' = TRUE
  /\ Len(net) < MaxInFlight
  /\ fetchTasks(net)
  /\ lastFetch' = "pending"
  /\ ev' = Event("mount", NoExch)
  /\ UNCHANGED <<listVars, toastVars, formVars, deleteVars, remote, ops>>

openAddPopup ==
  /\ UserEvent("openAddPopup")
  /\ newTitle' = <<>>
  /\ newPriority' = Low
  /\ newStatus' = Open
  /\ isAddOpen' = TRUE
  /\ UNCHANGED <<listVars, loading, err, toastVars, deleteVars, net, remote,
                 mounted>>

\* The dialog's close and Cancel buttons: setIsAddOpen(false).
closeAddPopup ==
  /\ isAddOpen
  /\ UserEvent("closeAddPopup")
  /\ isAddOpen' = FALSE
  /\ UNCHANGED <<listVars, loading, err, toastVars, newTitle, newPriority,
                 newStatus, deleteVars, net, remote, mounted>>

\* The form's inputs: setNewTitle, setNewPriority, setNewStatus.
setNewTitle ==
  /\ isAddOpen
  /\ UserEvent("setNewTitle")
  /\ \E v \in TitleInputs : v # newTitle /\ newTitle' = v
  /\ UNCHANGED <<listVars, loading, err, toastVars, isAddOpen, newPriority,
                 newStatus, deleteVars, net, remote, mounted>>

setNewPriority ==
  /\ isAddOpen
  /\ UserEvent("setNewPriority")
  /\ \E v \in PriorityOptions : v # newPriority /\ newPriority' = v
  /\ UNCHANGED <<listVars, loading, err, toastVars, isAddOpen, newTitle,
                 newStatus, deleteVars, net, remote, mounted>>

setNewStatus ==
  /\ isAddOpen
  /\ UserEvent("setNewStatus")
  /\ \E v \in StatusOptions : v # newStatus /\ newStatus' = v
  /\ UNCHANGED <<listVars, loading, err, toastVars, isAddOpen, newTitle,
                 newPriority, deleteVars, net, remote, mounted>>

\* addTask, the form's submit, up to its await.
addTask ==
  /\ isAddOpen
  /\ UserEvent("addTask")
  /\ IF Trim(newTitle) = <<>>
     THEN /\ CanToast
          /\ showToast("error", MsgTitleRequired)
          /\ UNCHANGED <<err, net>>
     ELSE /\ Len(net) < MaxInFlight
          /\ err' = <<>>
          /\ net' = Append(net,
                      Exch("addTask", POST, API,
                           JStr(JSONstringify(
                             Payload(newTitle, newPriority, newStatus)))))
          /\ UNCHANGED toastVars
  /\ UNCHANGED <<listVars, loading, formVars, deleteVars, remote, mounted>>

\* prev[id] || { priority: "Low", status: "open" }
DraftOr(d, id, fallback) ==
  IF ObjGet(d, id).t = "undefined" THEN fallback ELSE ObjGet(d, id)

onDraftChange(id, field, value) ==
  /\ drafts' = ObjSet(drafts, id,
                      ObjSet(DraftOr(drafts, id,
                                     JObj(<<K_priority, K_status>>,
                                          <<JStr(Low), JStr(Open)>>)),
                             field, JStr(value)))
  /\ UNCHANGED <<tasks, loading, err, toastVars, formVars, deleteVars, net,
                 remote, mounted>>

\* tasks.find((t) => t.id === id): its index, 0 when there is none.
Find(id) == TaskIndex(tasks, id)

\* A variant of SaveUpdates: the whole draft is sent.
SaveUpdates_WholeDraft(current, draft) ==
  ObjSet(ObjSet(JObj(<<>>, <<>>), K_priority, ObjGet(draft, K_priority)),
         K_status, ObjGet(draft, K_status))

\* The updates saveTask sends: the draft's fields that differ from the task's.
SaveUpdates(current, draft) ==
  LET p == IF ObjGet(draft, K_priority) # ObjGet(current, K_priority)
           THEN ObjSet(JObj(<<>>, <<>>), K_priority, ObjGet(draft, K_priority))
           ELSE JObj(<<>>, <<>>)
  IN IF ObjGet(draft, K_status) # ObjGet(current, K_status)
     THEN ObjSet(p, K_status, ObjGet(draft, K_status))
     ELSE p

\* saveTask(id) up to its await.
saveTask(id) ==
  LET draft == ObjGet(drafts, id)
      updates == SaveUpdates(tasks[Find(id)], draft)
  IN /\ IF Find(id) = 0 \/ draft.t = "undefined"
        THEN UNCHANGED <<err, toastVars, net>>
        ELSE IF updates.keys = <<>>
        THEN /\ CanToast
             /\ showToast("info", MsgNoChanges)
             /\ UNCHANGED <<err, net>>
        ELSE /\ Len(net) < MaxInFlight
             /\ err' = <<>>
             /\ net' = Append(net,
                         Exch("saveTask", PATCH, API \o <<"/">> \o id,
                              JStr(JSONstringify(updates))))
             /\ UNCHANGED toastVars
     /\ UNCHANGED <<listVars, loading, formVars, deleteVars, remote, mounted>>

resetRow(id) ==
  /\ IF Find(id) = 0
     THEN UNCHANGED <<drafts, toastVars>>
     ELSE /\ CanToast
          /\ drafts' = ObjSet(drafts, id,
                              JObj(<<K_priority, K_status>>,
                                   <<ObjGet(tasks[Find(id)], K_priority),
                                     ObjGet(tasks[Find(id)], K_status)>>))
          /\ showToast("info", MsgChangesReset)
  /\ UNCHANGED <<tasks, loading, err, formVars, deleteVars, net, remote,
                 mounted>>

requestDelete(id) ==
  /\ pendingDeleteId' = JStr(id)
  /\ confirmOpen' = TRUE
  /\ UNCHANGED <<listVars, loading, err, toastVars, formVars, net, remote,
                 mounted>>

\* A variant of cancelDelete: the dialog closes, the pending id stays.
cancelDelete_KeepsId ==
  /\ confirmOpen' = FALSE
  /\ UNCHANGED pendingDeleteId
  /\ UNCHANGED <<listVars, loading, err, toastVars, formVars, net, remote,
                 mounted>>

cancelDelete ==
  /\ confirmOpen' = FALSE
  /\ pendingDeleteId' = JNull
  /\ UNCHANGED <<listVars, loading, err, toastVars, formVars, net, remote,
                 mounted>>

\* confirmDelete up to its await.
confirmDelete ==
  /\ IF ~Truthy(pendingDeleteId)
     THEN UNCHANGED <<err, net>>
     ELSE /\ Len(net) < MaxInFlight
          /\ err' = <<>>
          /\ net' = Append(net,
                      Exch("confirmDelete", DELETE,
                           API \o <<"/">> \o pendingDeleteId.s, Undefined))
  /\ UNCHANGED <<listVars, loading, toastVars, formVars, deleteVars, remote,
                 mounted>>

\* resetFilters: the filters (which only select the rows shown) and its toast.
resetFilters ==
  /\ UserEvent("resetFilters")
  /\ CanToast
  /\ showToast("info", MsgFiltersReset)
  /\ UNCHANGED <<listVars, loading, err, formVars, deleteVars, net, remote,
                 mounted>>

(***************************************************************************)
(* What the page lets the user do: the rows are rendered only when loading *)
(* is false, Save and Reset are enabled only on a changed row, and the     *)
(* confirm dialog's buttons exist only while it is open.                   *)
(***************************************************************************)
\* const d = drafts[t.id] || {...}; const changed = d.priority !== ... 
Changed(t) ==
  LET d == DraftOr(drafts, TaskId(t),
                   JObj(<<K_priority, K_status>>,
                        <<ObjGet(t, K_priority), ObjGet(t, K_status)>>))
  IN \/ ObjGet(d, K_priority) # ObjGet(t, K_priority)
     \/ ObjGet(d, K_status) # ObjGet(t, K_status)

SelectDraft ==
  /\ ~loading
  /\ UserEvent("onDraftChange")
  /\ \E i \in 1..Len(tasks) :
       \/ \E v \in PriorityOptions : onDraftChange(TaskId(tasks[i]), K_priority, v)
       \/ \E v \in StatusOptions : onDraftChange(TaskId(tasks[i]), K_status, v)

ClickSave ==
  /\ ~loading
  /\ \E i \in 1..Len(tasks) :
       /\ Changed(tasks[i])
       /\ RowEvent("saveTask", TaskId(tasks[i]))
       /\ saveTask(TaskId(tasks[i]))

ClickReset ==
  /\ ~loading
  /\ UserEvent("resetRow")
  /\ \E i \in 1..Len(tasks) : Changed(tasks[i]) /\ resetRow(TaskId(tasks[i]))

ClickDelete ==
  /\ ~loading
  /\ \E i \in 1..Len(tasks) :
       /\ RowEvent("requestDelete", TaskId(tasks[i]))
       /\ requestDelete(TaskId(tasks[i]))

ClickCancelDelete ==
  /\ confirmOpen
  /\ UserEvent("cancelDelete")
  /\ cancelDelete

ClickConfirmDelete ==
  /\ confirmOpen
  /\ UserEvent("confirmDelete")
  /\ confirmDelete

\* The toast's close button: setToast(null).
closeToast ==
  /\ toast # NoToast
  /\ UserEvent("closeToast")
  /\ toast' = NoToast
  /\ timers' = [i \in 1..Len(timers) |-> FALSE]
  /\ UNCHANGED <<listVars, loading, err, formVars, deleteVars, net, remote,
                 mounted>>

\* A showToast timer fires, the oldest first: setToast(null).
TimerFire ==
  /\ timers # <<>>
  /\ toast' = NoToast
  /\ timers' = [i \in 1..(Len(timers) - 1) |-> FALSE]
  /\ ev' = Event("timer", NoExch)
  /\ UNCHANGED <<listVars, loading, err, formVars, deleteVars, net, remote,
                 mounted, ops>>

(***************************************************************************)
(* The service and the transport.                                          *)
(***************************************************************************)
\* The service handles a request by its contract.
Served(i, a) ==
  /\ remote' = a.list
  /\ net' = [net EXCEPT ![i] = Replied(net[i], a.status, a.rbody)]

Serve ==
  \E i \in 1..Len(net) :
    /\ net[i].stage = "sent"
    /\ net[i].method = POST => Len(remote) < MaxTasks
    /\ Served(i, ServiceAnswer(remote, net[i]))
    /\ ev' = Event("serve", net[i])
    /\ UNCHANGED <<listVars, loading, err, toastVars, formVars, deleteVars,
                   mounted, ops>>

\* The service fails a request: 500, nothing changed.
ServeError ==
  \E i \in 1..Len(net) :
    /\ net[i].stage = "sent"
    /\ net' = [net EXCEPT ![i] = Replied(net[i], 500, <<>>)]
    /\ ev' = Event("serveError", net[i])
    /\ UNCHANGED <<listVars, loading, err, toastVars, formVars, deleteVars,
                   remote, mounted, ops>>

\* A GET is answered 200 with a body that is not JSON.
ServeNotJson ==
  \E i \in 1..Len(net) :
    /\ net[i].stage = "sent"
    /\ net[i].method = GET
    /\ net' = [net EXCEPT ![i] = Replied(net[i], 200, NotJson)]
    /\ ev' = Event("serveNotJson", net[i])
    /\ UNCHANGED <<listVars, loading, err, toastVars, formVars, deleteVars,
                   remote, mounted, ops>>

(***************************************************************************)
(* The handlers after their await.                                         *)
(***************************************************************************)
\* catch (e) { setErr(msg); showToast("error", msg); }
Caught(msg) ==
  /\ err' = msg
  /\ showToast("error", msg)

\* A variant of FetchTasksDone: the fetched drafts are merged into the old ones.
FetchTasksDone_MergeDrafts(x, base, data) ==
  /\ net' = base
  /\ loading' = FALSE
  /\ IF ~ResOk(x.status)
     THEN /\ Caught(MsgHttp \o NumToChars(x.status))
          /\ ev' = Event("fetchTasks.fail", x)
          /\ UNCHANGED listVars
     ELSE IF ~data.ok
     THEN /\ Caught(SyntaxErrorMessage)
          /\ ev' = Event("fetchTasks.fail", x)
          /\ UNCHANGED listVars
     ELSE /\ tasks' = data.val.items
          /\ drafts' = DraftsOf(data.val.items, 1, drafts)
          /\ ev' = [Event("fetchTasks.ok", x) EXCEPT
                      !.dirty = \E i \in 1..Len(tasks) : Changed(tasks[i])]
          /\ UNCHANGED <<err, toastVars>>
  /\ UNCHANGED <<formVars, deleteVars>>

\* fetchTasks after its await, given the response and what res.json() makes
\* of its body.
FetchTasksDone(x, base, data) ==
  /\ net' = base
  /\ loading' = FALSE
  /\ IF ~ResOk(x.status)
     THEN /\ Caught(MsgHttp \o NumToChars(x.status))
          /\ ev' = Event("fetchTasks.fail", x)
          /\ UNCHANGED listVars
     ELSE IF ~data.ok
     THEN /\ Caught(SyntaxErrorMessage)
          /\ ev' = Event("fetchTasks.fail", x)
          /\ UNCHANGED listVars
     ELSE /\ tasks' = data.val.items
          /\ drafts' = DraftsOf(data.val.items, 1, JObj(<<>>, <<>>))
          /\ ev' = [Event("fetchTasks.ok", x) EXCEPT
                      !.dirty = \E i \in 1..Len(tasks) : Changed(tasks[i])]
          /\ UNCHANGED <<err, toastVars>>
  /\ UNCHANGED <<formVars, deleteVars>>

\* A variant of AddTaskDone: the form is reset and closed on failure too.
AddTaskDone_ResetOnFailure(x, base) ==
  IF ~ResOk(x.status)
  THEN /\ Caught(MsgPostFailed \o NumToChars(x.status))
       /\ net' = base
       /\ newTitle' = <<>>
       /\ newPriority' = Low
       /\ newStatus' = Open
       /\ isAddOpen' = FALSE
       /\ ev' = Event("addTask.fail", x)
       /\ UNCHANGED <<listVars, loading, deleteVars>>
  ELSE /\ newTitle' = <<>>
       /\ newPriority' = Low
       /\ newStatus' = Open
       /\ isAddOpen' = FALSE
       /\ showToast("success", MsgTaskAdded)
       /\ fetchTasks(base)
       /\ ev' = Event("addTask.ok", x)
       /\ UNCHANGED <<listVars, deleteVars>>

\* addTask after its await.
AddTaskDone(x, base) ==
  IF ~ResOk(x.status)
  THEN /\ Caught(MsgPostFailed \o NumToChars(x.status))
       /\ net' = base
       /\ ev' = Event("addTask.fail", x)
       /\ UNCHANGED <<listVars, loading, formVars, deleteVars>>
  ELSE /\ newTitle' = <<>>
       /\ newPriority' = Low
       /\ newStatus' = Open
       /\ isAddOpen' = FALSE
       /\ showToast("success", MsgTaskAdded)
       /\ fetchTasks(base)
       /\ ev' = Event("addTask.ok", x)
       /\ UNCHANGED <<listVars, deleteVars>>

\* A variant of SaveTaskDone: no reload after the PATCH succeeded.
SaveTaskDone_NoRefetch(x, base) ==
  IF ~ResOk(x.status)
  THEN /\ Caught(MsgPatchFailed \o NumToChars(x.status))
       /\ net' = base
       /\ ev' = Event("saveTask.fail", x)
       /\ UNCHANGED <<listVars, loading, formVars, deleteVars>>
  ELSE /\ showToast("success", MsgTaskUpdated)
       /\ net' = base
       /\ ev' = Event("saveTask.ok", x)
       /\ UNCHANGED <<listVars, loading, err, formVars, deleteVars>>

\* saveTask after its await.
SaveTaskDone(x, base) ==
  IF ~ResOk(x.status)
  THEN /\ Caught(MsgPatchFailed \o NumToChars(x.status))
       /\ net' = base
       /\ ev' = Event("saveTask.fail", x)
       /\ UNCHANGED <<listVars, loading, formVars, deleteVars>>
  ELSE /\ showToast("success", MsgTaskUpdated)
       /\ fetchTasks(base)
       /\ ev' = Event("saveTask.ok", x)
       /\ UNCHANGED <<listVars, formVars, deleteVars>>

\* confirmDelete after its await.
ConfirmDeleteDone(x, base) ==
  IF ~ResOk(x.status)
  THEN /\ Caught(MsgDeleteFailed \o NumToChars(x.status))
       /\ net' = base
       /\ ev' = Event("confirmDelete.fail", x)
       /\ UNCHANGED <<listVars, loading, formVars, deleteVars>>
  ELSE /\ showToast("success", MsgTaskDeleted)
       /\ confirmOpen' = FALSE
       /\ pendingDeleteId' = JNull
       /\ fetchTasks(base)
       /\ ev' = Event("confirmDelete.ok", x)
       /\ UNCHANGED <<listVars, formVars>>

\* fetch() resolves for an exchange the service answered.
Delivered(x, base) ==
  CASE x.op = "fetchTasks" -> FetchTasksDone(x, base, JSONparse(x.rbody))
    [] x.op = "addTask" -> AddTaskDone(x, base)
    [] x.op = "saveTask" -> SaveTaskDone(x, base)
    [] x.op = "confirmDelete" -> ConfirmDeleteDone(x, base)

\* Exchange i is the most recently issued fetchTasks(): that one has not
\* settled, and no fetchTasks() was issued after i.
IsLatestFetch(i) ==
  /\ net[i].op = "fetchTasks"
  /\ lastFetch = "pending"
  /\ \A j \in (i + 1)..Len(net) : net[j].op # "fetchTasks"

\* lastFetch once exchange i has settled in the given way: that way
\* if i is the latest fetchTasks(), pending if the continuation issued a
\* fetchTasks() (one exchange left, one joined), else as before.
Settled(i, settledNet, how) ==
  IF IsLatestFetch(i) THEN how
  ELSE IF net[i].op # "fetchTasks" /\ Len(settledNet) = Len(net) THEN "pending"
  ELSE lastFetch

Deliver ==
  \E i \in 1..Len(net) :
    /\ net[i].stage = "replied"
    /\ Len(timers) < MaxTimers
    /\ Delivered(net[i], Remove(net, i))
    /\ lastFetch' = Settled(i, net',
                            IF ev'.name = "fetchTasks.ok" THEN "ok" ELSE "fail")
    /\ UNCHANGED <<remote, mounted, ops>>

\* fetch() rejects: the handler's catch runs with the transport's error.
Rejected(x, base) ==
  /\ net' = base
  /\ \E e \in TransportErrors : Caught(e.message)
  /\ ev' = Event(x.op \o ".fail", [x EXCEPT !.stage = "lost"])
  /\ loading' = IF x.op = "fetchTasks" THEN FALSE ELSE loading
  /\ UNCHANGED <<listVars, formVars, deleteVars>>

Reject ==
  \E i \in 1..Len(net) :
    /\ CanToast
    /\ Rejected(net[i], Remove(net, i))
    /\ lastFetch' = Settled(i, net', "fail")
    /\ UNCHANGED <<remote, mounted, ops>>

VNext ==
  \/ Mount /\ UNCHANGED hvars
  \/ openAddPopup /\ UNCHANGED <<hvars, lastFetch>>
  \/ closeAddPopup /\ UNCHANGED <<hvars, lastFetch>>
  \/ setNewTitle /\ UNCHANGED <<hvars, lastFetch>>
  \/ setNewPriority /\ UNCHANGED <<hvars, lastFetch>>
  \/ setNewStatus /\ UNCHANGED <<hvars, lastFetch>>
  \/ addTask /\ UNCHANGED <<hvars, lastFetch>>
  \/ SelectDraft /\ UNCHANGED <<hvars, lastFetch>>
  \/ ClickSave /\ UNCHANGED <<hvars, lastFetch>>
  \/ ClickReset /\ UNCHANGED <<hvars, lastFetch>>
  \/ ClickDelete /\ UNCHANGED <<hvars, lastFetch>>
  \/ ClickCancelDelete /\ UNCHANGED <<hvars, lastFetch>>
  \/ ClickConfirmDelete /\ UNCHANGED <<hvars, lastFetch>>
  \/ resetFilters /\ UNCHANGED <<hvars, lastFetch>>
  \/ closeToast /\ UNCHANGED <<hvars, lastFetch>>
  \/ TimerFire /\ UNCHANGED <<hvars, lastFetch>>
  \/ Serve /\ UNCHANGED <<hvars, lastFetch>>
  \/ ServeError /\ UNCHANGED <<hvars, lastFetch>>
  \/ ServeNotJson /\ UNCHANGED <<hvars, lastFetch>>
  \/ Deliver /\ UNCHANGED hvars
  \/ Reject /\ UNCHANGED hvars

(***************************************************************************)
(* The specifications: Spec runs the request executor and the resource     *)
(* client, SpecView the page with the service behind it.                   *)
(***************************************************************************)
HNext ==
  \/ CallList /\ UNCHANGED vvars
  \/ CallCreate /\ UNCHANGED vvars
  \/ CallUpdate /\ UNCHANGED vvars
  \/ CallRemove /\ UNCHANGED vvars
  \/ CallHttp /\ UNCHANGED vvars
  \/ FetchResolve /\ UNCHANGED vvars
  \/ FetchReject /\ UNCHANGED vvars
  \/ TextResolve /\ UNCHANGED vvars
  \/ TextReject /\ UNCHANGED vvars
  \/ Finish /\ UNCHANGED vvars

vars == <<hvars, vvars>>

Init == HInit /\ VInit /\ remote = <<>>

Spec == Init /\ [][HNext]_vars

InitView == HInit /\ VInit

SpecView == InitView /\ [][VNext]_vars

\* saveTask called with any id, whatever the page renders: the handler's own
\* tests (no task, no draft, nothing changed) decide.
SaveArgs == {<<"1">>, <<"2">>, <<"3">>}

CallSaveTask == \E id \in SaveArgs : RowEvent("saveTask", id) /\ saveTask(id)

HandlersNext ==
  \/ VNext
  \/ CallSaveTask /\ UNCHANGED <<hvars, lastFetch>>

SpecHandlers == InitView /\ [][HandlersNext]_vars

(***************************************************************************)
(* The request executor's claims, under Spec.                              *)
(***************************************************************************)
\* The body text was read: http() ran to its end on a response.
Decoded == hpc = "done" /\ text.t = "str"

\* C1: for every response http() reads, an ApiError is thrown iff res.ok is
\* false; it then carries the response's status and its exact body text, and
\* no value is returned.  With res.ok nothing is thrown.
C1_ApiErrorIffNotOk ==
  Decoded =>
    /\ (outcome.kind = "throw" /\ outcome.error.name = "ApiError") <=> ~res.ok
    /\ ~res.ok =>
         /\ outcome.kind = "throw"
         /\ outcome.value = Undefined
         /\ outcome.error.status = res.status
         /\ outcome.error.bodyText = text.s
    /\ res.ok => outcome.kind = "return"

\* A failed response with an empty body, and one whose body is not JSON, each
\* ended in an ApiError.
C1_Witness ==
  /\ Decoded
  /\ res.status = 404
  /\ text.s = <<>>
  /\ outcome.kind = "throw"
  /\ outcome.error = ApiError(HttpMessage(404, wire[1].method.s, wire[1].url), 404, <<>>)

\* The Content-Type the caller's headers give, undefined when they give none.
CallerContentType ==
  ObjGet(Default(call.opts.headers, JObj(<<>>, <<>>)), ContentType)

\* C2: whenever a body other than undefined is passed to http(), the request
\* carries its JSON serialization as the body, and the Content-Type header is
\* the caller's when the caller gave one and application/json otherwise.
C2_DefinedBodyIsSent ==
  (hpc # "idle" /\ call.opts.body.t # "undefined") =>
    /\ wire[1].body = JStr(JSONstringify(call.opts.body))
    /\ ObjGet(wire[1].headers, ContentType)
         = Default(CallerContentType, JStr(ApplicationJson))

\* C3: a success response with a body text that is not empty and parses as JSON
\* makes http() return the parsed value: the value a server serialized comes
\* back as that value, and the text "[]" as the empty array.
C3_ReturnsParsedJson ==
  (Decoded /\ res.ok /\ text.s # <<>>) =>
    /\ JSONparse(text.s).ok => outcome = Return(JSONparse(text.s).val)
    /\ \A v \in JsonSamples : text.s = JSONstringify(v) => outcome = Return(v)
    /\ text.s = <<"[", "]">> => result = Return(JArr(<<>>))

\* list() got "[]" from the server and returned the empty array.
C3_Witness ==
  /\ Decoded
  /\ api.op = "list"
  /\ res.status = 200
  /\ text.s = <<"[", "]">>
  /\ result = Return(JArr(<<>>))

\* C4: a success response with an empty body text makes http() return
\* undefined, whatever the method, and nothing is thrown.
C4_EmptyBodyIsUndefined ==
  (Decoded /\ res.ok /\ text.s = <<>>) => outcome = Return(Undefined)

\* remove() got 204 with no body and returned undefined.
C4_Witness ==
  /\ Decoded
  /\ api.op = "remove"
  /\ wire[1].method = JStr(DELETE)
  /\ res.status = 204
  /\ text.s = <<>>
  /\ result = Return(Undefined)

\* C5: a success response whose body text is not empty and does not parse as
\* JSON makes http() return that text, unchanged, as a string; nothing is
\* thrown.
C5_UnparseableIsRawText ==
  (Decoded /\ res.ok /\ text.s # <<>>) =>
    /\ ~JSONparse(text.s).ok => outcome = Return(JStr(text.s))
    /\ text.s \in PlainSamples => outcome = Return(JStr(text.s))

\* The bare text ok came back as the string ok.
C5_Witness ==
  /\ Decoded
  /\ res.ok
  /\ text.s = <<"o", "k">>
  /\ outcome = Return(JStr(<<"o", "k">>))

\* C6: every TasksAPI operation hands exactly one request to fetch(), with its
\* fixed method and path and the given body, never a second one, and the
\* promise its caller holds is http()'s.
C6_OneFixedExchange ==
  (api.op \in {"list", "create", "update", "remove"}) =>
    /\ Len(wire) = 1
    /\ api.op = "list" =>
         /\ wire[1].url = BASE
         /\ wire[1].method = JStr(GET)
         /\ wire[1].body = Undefined
    /\ api.op = "create" =>
         /\ wire[1].url = BASE
         /\ wire[1].method = JStr(POST)
         /\ wire[1].body = JStr(JSONstringify(api.arg))
    /\ api.op = "update" =>
         /\ wire[1].url = BASE \o <<"/">> \o api.id
         /\ wire[1].method = JStr(PATCH)
         /\ wire[1].body = JStr(JSONstringify(api.arg))
    /\ api.op = "remove" =>
         /\ wire[1].url = BASE \o <<"/">> \o api.id
         /\ wire[1].method = JStr(DELETE)
         /\ wire[1].body = Undefined
    /\ result = outcome

\* update("2", {priority: "High"}) sent one PATCH to .../tasks/2 with that body
\* and its caller got the ApiError of the 500 response.
C6_Witness ==
  /\ api.op = "update"
  /\ hpc = "done"
  /\ Len(wire) = 1
  /\ wire[1].url = BASE \o <<"/", "2">>
  /\ wire[1].body.s = <<"{", "\"", "p", "r", "i", "o", "r", "i", "t", "y", "\"", ":",
                        "\"", "H", "i", "g", "h", "\"", "}">>
  /\ res.status = 500
  /\ result.kind = "throw"
  /\ result.error.name = "ApiError"

\* C7: when the transport fails, http() fails with the transport's own error:
\* no ApiError, no value, and no second request.
C7_TransportFailurePropagates ==
  (terr # NoErr) =>
    /\ hpc = "done"
    /\ outcome = Throw(terr)
    /\ outcome.error.name # "ApiError"
    /\ result = outcome
    /\ Len(wire) = 1

\* fetch() rejected before any response.
C7_Witness ==
  /\ terr \in TransportErrors
  /\ res = NoResponse
  /\ hpc = "done"
  /\ outcome.kind = "throw"


(***************************************************************************)
(* The page's claims, under SpecView.                                      *)
(***************************************************************************)
MutationSucceeded == {"addTask.ok", "saveTask.ok", "confirmDelete.ok"}
MutationFailed == {"addTask.fail", "saveTask.fail", "confirmDelete.fail"}

\* The GET fetchTasks hands to fetch().
ListFetch == Exch("fetchTasks", GET, API, Undefined)

\* C8: the step in which a mutation's exchange succeeds issues the list GET of
\* fetchTasks and leaves tasks alone; tasks change only in the step in which a
\* list fetch succeeds, and then they become exactly the list the response
\* carries.
C8_RefetchAfterMutation ==
  [][/\ ev'.name \in MutationSucceeded =>
          /\ Len(net') = Len(net)
          /\ net'[Len(net')] = ListFetch
          /\ loading'
          /\ tasks' = tasks
     /\ ev'.name = "fetchTasks.ok" =>
          JSONstringify(JArr(tasks')) = ev'.x.rbody
     /\ tasks' # tasks => ev'.name = "fetchTasks.ok"]_vars

\* A reload has just succeeded and shows the one task the service holds: a
\* mutation (an add to the empty collection, or a delete from the two tasks)
\* went through and its reload replaced the list.
C8_Witness ==
  /\ ev.name = "fetchTasks.ok"
  /\ Len(tasks) = 1
  /\ tasks = remote
  /\ net = <<>>

\* The drafts that mirror a list: one entry per task, in order, holding the
\* task's priority and status.
Mirror(list) ==
  JObj([i \in 1..Len(list) |-> TaskId(list[i])],
       [i \in 1..Len(list) |->
          JObj(<<K_priority, K_status>>,
               <<ObjGet(list[i], K_priority), ObjGet(list[i], K_status)>>)])

\* C9: the step in which fetchTasks succeeds leaves drafts with exactly one
\* entry per fetched task, equal to that task's priority and status, whatever
\* drafts held before; any other step that changes drafts is an onDraftChange
\* or a resetRow.
C9_DraftsMirrorReload ==
  [][/\ ev'.name = "fetchTasks.ok" => drafts' = Mirror(tasks')
     /\ drafts' # drafts =>
          ev'.name \in {"fetchTasks.ok", "onDraftChange", "resetRow"}]_vars

\* A reload met a row with an unsaved edit and left drafts mirroring the list.
C9_Witness ==
  /\ ev.name = "fetchTasks.ok"
  /\ ev.dirty
  /\ tasks # <<>>
  /\ drafts = Mirror(tasks)

\* The message a handler's catch shows for the exchange x it awaited.
FailureMessages(x) ==
  IF x.stage = "lost" THEN {e.message : e \in TransportErrors}
  ELSE { (CASE x.op = "addTask" -> MsgPostFailed
            [] x.op = "saveTask" -> MsgPatchFailed
            [] x.op = "confirmDelete" -> MsgDeleteFailed
            [] OTHER -> MsgHttp) \o NumToChars(x.status) }

\* C10: the step in which a mutation's exchange fails (a status that is not a
\* success, or a transport failure) sets err to the failure's message and shows
\* it as an error toast, issues no request, and leaves the add dialog, its
\* form, the drafts, the tasks and the delete dialog with its pending id as
\* they were.
C10_FailureLeavesInputs ==
  [][ev'.name \in MutationFailed =>
       /\ err' \in FailureMessages(ev'.x)
       /\ err' # <<>>
       /\ toast' = [type |-> "error", message |-> err']
       /\ \E i \in 1..Len(net) : net' = Remove(net, i)
       /\ UNCHANGED <<isAddOpen, newTitle, newPriority, newStatus, drafts, tasks,
                      confirmOpen, pendingDeleteId, loading, remote>>]_vars

\* The POST of the add dialog was answered 500: the dialog is still open with
\* the title, and the failure shows in err and in the toast.
C10_Witness ==
  /\ ev.name = "addTask.fail"
  /\ ev.x.status = 500
  /\ isAddOpen
  /\ newTitle = <<"a">>
  /\ ev.x.body = JStr(JSONstringify(Payload(newTitle, newPriority, newStatus)))
  /\ err = MsgPostFailed \o <<"5", "0", "0">>
  /\ toast = [type |-> "error", message |-> err]
  /\ net = <<>>


(***************************************************************************)
(* saveTask as a handler, under SpecHandlers.                              *)
(***************************************************************************)
\* The fields of {priority, status} in which draft d differs from task t.
Differing(t, d) ==
  {f \in {K_priority, K_status} : ObjGet(d, f) # ObjGet(t, f)}

\* Exchange x is the PATCH of task id carrying exactly fields fs of draft d.
PatchOf(x, id, d, fs) ==
  /\ x.op = "saveTask"
  /\ x.method = PATCH
  /\ x.url = API \o <<"/">> \o id
  /\ x.stage = "sent"
  /\ x.body.t = "str"
  /\ JSONparse(x.body.s).ok
  /\ JSONparse(x.body.s).val.t = "obj"
  /\ {JSONparse(x.body.s).val.keys[i] :
        i \in 1..Len(JSONparse(x.body.s).val.keys)} = fs
  /\ Len(JSONparse(x.body.s).val.keys) = Cardinality(fs)
  /\ \A f \in fs : ObjGet(JSONparse(x.body.s).val, f) = ObjGet(d, f)

\* What saveTask(id) must do in a state with these tasks and drafts.
SaveTaskContract(id, at, d) ==
  IF at = 0 \/ d.t = "undefined" \/ Differing(tasks[at], d) = {}
  THEN net' = net
  ELSE /\ Len(net') = Len(net) + 1
       /\ SubSeq(net', 1, Len(net)) = net
       /\ PatchOf(net'[Len(net')], id, d, Differing(tasks[at], d))

\* C11: a step of saveTask(id) issues one PATCH to the task's URL whose JSON
\* body holds exactly the fields of {priority, status} in which the draft
\* differs from the local task, with the draft's values; when nothing
\* differs, or id has no local task or no draft, it issues no exchange; in
\* both cases tasks and drafts are unchanged.
C11_SaveSendsChangedSubset ==
  [][ev'.name = "saveTask" =>
       /\ SaveTaskContract(ev'.arg, TaskIndex(tasks, ev'.arg),
                           ObjGet(drafts, ev'.arg))
       /\ UNCHANGED <<tasks, drafts>>]_vars

\* saveTask has just sent a PATCH that carries the status alone, for a row
\* whose draft differs from the task in status and not in priority.
C11_Witness ==
  /\ ev.name = "saveTask"
  /\ net # <<>>
  /\ TaskIndex(tasks, ev.arg) # 0
  /\ Differing(tasks[TaskIndex(tasks, ev.arg)], ObjGet(drafts, ev.arg))
       = {K_status}
  /\ PatchOf(net[Len(net)], ev.arg, ObjGet(drafts, ev.arg), {K_status})


\* C12: whenever no exchange is in flight and the most recently issued list
\* fetch succeeded, the tasks the page holds are the collection the service
\* holds.
C12_SettledViewIsRemote ==
  (net = <<>> /\ lastFetch = "ok") => tasks = remote

\* The dialog is open exactly when a pending delete id is held.
DialogMatchesPending == confirmOpen <=> pendingDeleteId # JNull

\* The DELETE confirmDelete sends for task id.
DeleteOf(id) == Exch("confirmDelete", DELETE, API \o <<"/">> \o id, Undefined)

\* C13: before and after every step the confirm dialog is open exactly when
\* pendingDeleteId is not null; requestDelete(id) makes id the pending id and
\* no other step changes the pending id except to null; and a step of
\* confirmDelete issues the DELETE of the pending id, or nothing when there is
\* none.
C13_DialogAndPendingId ==
  [][/\ DialogMatchesPending
     /\ DialogMatchesPending'
     /\ ev'.name = "requestDelete" => pendingDeleteId' = JStr(ev'.arg)
     /\ ev'.name # "requestDelete" =>
          pendingDeleteId' \in {pendingDeleteId, JNull}
     /\ ev'.name = "confirmDelete" =>
          net' = IF pendingDeleteId = JNull THEN net
                 ELSE Append(net, DeleteOf(pendingDeleteId.s))
     /\ (net' # net /\ Len(net') > Len(net)
           /\ net'[Len(net')].method = DELETE) => ev'.name = "confirmDelete"]_vars

\* confirmDelete has just sent the DELETE of task 2, the id the dialog holds.
C13_Witness ==
  /\ ev.name = "confirmDelete"
  /\ confirmOpen
  /\ pendingDeleteId = JStr(<<"2">>)
  /\ net # <<>>
  /\ net[Len(net)] = DeleteOf(<<"2">>)

\* The message fetchTasks' catch shows for the exchange x it awaited.
FetchFailureMessages(x) ==
  IF x.stage = "lost" THEN {e.message : e \in TransportErrors}
  ELSE IF ~ResOk(x.status) THEN {MsgHttp \o NumToChars(x.status)}
  ELSE {SyntaxErrorMessage}

\* A fetchTasks call that fails ends with loading false, tasks and drafts as
\* they were, and err holding the failure's message.
FetchFailureFrame ==
  ev'.name = "fetchTasks.fail" =>
    /\ loading' = FALSE
    /\ UNCHANGED <<tasks, drafts>>
    /\ err' \in FetchFailureMessages(ev'.x)
    /\ err' # <<>>

\* C14: the step that ends a fetchTasks call leaves loading false; when the
\* call failed (a status that is not a success, a transport failure or a body
\* that does not decode) tasks and drafts are as before and err is the
\* failure's message; when it succeeded err is empty.
C14_FetchEndsCleanly ==
  [][/\ FetchFailureFrame
     /\ ev'.name = "fetchTasks.ok" => (loading' = FALSE /\ err' = <<>>)]_vars

\* C15: a toast on display goes away only when its own timer fires, when the
\* user closes it, or when a later showToast replaces it; the timer of an
\* earlier toast leaves it on display.
C15_ToastOutlivesOlderTimers ==
  [][(toast # NoToast /\ toast' # toast) =>
       \/ ev'.name = "timer" /\ timers[1]
       \/ ev'.name = "closeToast"
       \/ toast' # NoToast]_vars

=============================================================================
